---- MODULE Spec2Model ----
(***************************************************************************)
(* A model of the SF building-permit pipeline of src/main.py: the paged,   *)
(* retried fetch of main/fetch_page, the column normalisation, the unit    *)
(* delta, the deduplication per site, the aggregation and the three        *)
(* artifact writes.                                                        *)
(*                                                                         *)
(* Representation.                                                         *)
(*  - A column name is the sequence of its characters, so that strip,      *)
(*    replace, title and the rename lookup of normalize_cols act on the    *)
(*    characters as the Python string methods do.                          *)
(*  - A cell value is a pair <<tag, payload>>: <<"str", s>> a JSON string, *)
(*    <<"num", n>> a float, <<"nan", 0>> NaN, <<"ts", h>> an instant and   *)
(*    <<"nat", 0>> NaT.                                                    *)
(*  - A float n is held as the integer UnitScale * n (all modelled unit    *)
(*    counts are multiples of 1/UnitScale), so 2.5 units is 5.             *)
(*  - An instant is a number of hours since 2022-12-01T00:00Z.             *)
(*  - A DataFrame is [columns |-> sequence of names, rows |-> sequence of  *)
(*    rows], a row being the sequence of its cells in column order.        *)
(***************************************************************************)
EXTENDS Integers, Sequences, FiniteSets, TLC

VARIABLES
  dataset,      \* the source's rows (the data set behind the API), in the server's order
  previous,     \* what public_data/ held before the run
  pc,           \* where main is
  offset,       \* main: offset
  attempt,      \* tenacity: the number of the current attempt of fetch_page(offset)
  lastOutcome,  \* how the latest attempt of fetch_page ended
  requested,    \* the offsets main called fetch_page with, in order
  pages,        \* the pages fetch_page returned, in order
  all_rows,     \* main: all_rows
  df,           \* main: df, then df_recent
  deduped,      \* main: deduped
  total_units,  \* main: total_units
  monthly,      \* main: out_monthly
  artifacts     \* the files of public_data/

vars == <<dataset, previous, pc, offset, attempt, lastOutcome, requested, pages,
          all_rows, df, deduped, total_units, monthly, artifacts>>

----------------------------------------------------------------------------
\* Column names.

block == <<"b","l","o","c","k">>
lot == <<"l","o","t">>
street_number == <<"s","t","r","e","e","t","_","n","u","m","b","e","r">>
proposed_units == <<"p","r","o","p","o","s","e","d","_","u","n","i","t","s">>
existing_units == <<"e","x","i","s","t","i","n","g","_","u","n","i","t","s">>
issued_date == <<"i","s","s","u","e","d","_","d","a","t","e">>
completed_date == <<"c","o","m","p","l","e","t","e","d","_","d","a","t","e">>
record_id == <<"r","e","c","o","r","d","_","i","d">>
adu == <<"a","d","u">>
new_units == <<"n","e","w","_","u","n","i","t","s">>
apn == <<"a","p","n">>
sort_key == <<"s","o","r","t","_","k","e","y">>
month == <<"m","o","n","t","h">>

----------------------------------------------------------------------------
\* Python's str methods, on character sequences.

LowerLetters == <<"a","b","c","d","e","f","g","h","i","j","k","l","m",
                  "n","o","p","q","r","s","t","u","v","w","x","y","z">>
UpperLetters == <<"A","B","C","D","E","F","G","H","I","J","K","L","M",
                  "N","O","P","Q","R","S","T","U","V","W","X","Y","Z">>
Whitespace == {" ", "\t", "\n"}

\* The upper-case letter of each lower-case letter, and the other way round.
UpperOf == [c \in {LowerLetters[i] : i \in DOMAIN LowerLetters} |->
              UpperLetters[CHOOSE i \in DOMAIN LowerLetters : LowerLetters[i] = c]]

LowerOf == [c \in {UpperLetters[i] : i \in DOMAIN UpperLetters} |->
              LowerLetters[CHOOSE i \in DOMAIN UpperLetters : UpperLetters[i] = c]]

IsCased(c) == c \in DOMAIN UpperOf \/ c \in DOMAIN LowerOf

upper_char(c) == IF c \in DOMAIN UpperOf THEN UpperOf[c] ELSE c

lower_char(c) == IF c \in DOMAIN LowerOf THEN LowerOf[c] ELSE c

\* str.lower()
lower(cs) == [i \in DOMAIN cs |-> lower_char(cs[i])]

RECURSIVE lstrip(_)
lstrip(cs) == IF cs # <<>> /\ Head(cs) \in Whitespace THEN lstrip(Tail(cs)) ELSE cs

RECURSIVE rstrip(_)
rstrip(cs) ==
  IF cs # <<>> /\ cs[Len(cs)] \in Whitespace THEN rstrip(SubSeq(cs, 1, Len(cs) - 1)) ELSE cs

\* str.strip()
strip(cs) == rstrip(lstrip(cs))

\* str.replace(old, new) for single characters
replace(cs, old, new) == [i \in DOMAIN cs |-> IF cs[i] = old THEN new ELSE cs[i]]

\* str.title(): a cased character is upper-cased when the character before it is
\* not cased (or there is none), and lower-cased when it is.
title(cs) ==
  [i \in DOMAIN cs |->
     IF i > 1 /\ IsCased(cs[i - 1]) THEN lower_char(cs[i]) ELSE upper_char(cs[i])]

\* sub in cs, for character sequences
Contains(cs, sub) ==
  \E i \in 1..(Len(cs) - Len(sub) + 1) : SubSeq(cs, i, i + Len(sub) - 1) = sub

----------------------------------------------------------------------------
\* normalize_cols

\* The keys ("Permit Number", ...) and values ("permit_number", ...) of the rename
\* dict of normalize_cols, spelled as character sequences.
rename ==
     (<<"P","e","r","m","i","t"," ","N","u","m","b","e","r">> :> <<"p","e","r","m","i","t","_","n","u","m","b","e","r">>)
  @@ (<<"P","e","r","m","i","t"," ","T","y","p","e">> :> <<"p","e","r","m","i","t","_","t","y","p","e">>)
  @@ (<<"P","e","r","m","i","t"," ","T","y","p","e"," ","D","e","f","i","n","i","t","i","o","n">> :> <<"p","e","r","m","i","t","_","t","y","p","e","_","d","e","f","i","n","i","t","i","o","n">>)
  @@ (<<"F","i","l","e","d"," ","D","a","t","e">> :> <<"f","i","l","e","d","_","d","a","t","e">>)
  @@ (<<"I","s","s","u","e","d"," ","D","a","t","e">> :> <<"i","s","s","u","e","d","_","d","a","t","e">>)
  @@ (<<"C","o","m","p","l","e","t","e","d"," ","D","a","t","e">> :> <<"c","o","m","p","l","e","t","e","d","_","d","a","t","e">>)
  @@ (<<"S","t","a","t","u","s">> :> <<"s","t","a","t","u","s">>)
  @@ (<<"S","t","a","t","u","s"," ","D","a","t","e">> :> <<"s","t","a","t","u","s","_","d","a","t","e">>)
  @@ (<<"B","l","o","c","k">> :> <<"b","l","o","c","k">>)
  @@ (<<"L","o","t">> :> <<"l","o","t">>)
  @@ (<<"S","t","r","e","e","t"," ","N","u","m","b","e","r">> :> <<"s","t","r","e","e","t","_","n","u","m","b","e","r">>)
  @@ (<<"S","t","r","e","e","t"," ","N","a","m","e">> :> <<"s","t","r","e","e","t","_","n","a","m","e">>)
  @@ (<<"S","t","r","e","e","t"," ","S","u","f","f","i","x">> :> <<"s","t","r","e","e","t","_","s","u","f","f","i","x">>)
  @@ (<<"P","r","o","p","o","s","e","d"," ","U","s","e">> :> <<"p","r","o","p","o","s","e","d","_","u","s","e">>)
  @@ (<<"E","x","i","s","t","i","n","g"," ","U","s","e">> :> <<"e","x","i","s","t","i","n","g","_","u","s","e">>)
  @@ (<<"P","r","o","p","o","s","e","d"," ","U","n","i","t","s">> :> <<"p","r","o","p","o","s","e","d","_","u","n","i","t","s">>)
  @@ (<<"E","x","i","s","t","i","n","g"," ","U","n","i","t","s">> :> <<"e","x","i","s","t","i","n","g","_","u","n","i","t","s">>)
  @@ (<<"R","e","c","o","r","d"," ","I","D">> :> <<"r","e","c","o","r","d","_","i","d">>)
  @@ (<<"S","u","p","e","r","v","i","s","o","r"," ","D","i","s","t","r","i","c","t">> :> <<"s","u","p","e","r","v","i","s","o","r","_","d","i","s","t","r","i","c","t">>)
  @@ (<<"Z","i","p","c","o","d","e">> :> <<"z","i","p","c","o","d","e">>)
  @@ (<<"A","D","U">> :> <<"a","d","u">>)

\* df.rename(columns=rename), for one column name
Renamed(c) == IF c \in DOMAIN rename THEN rename[c] ELSE c

\* What lines 102-104 make of one column name.
NormalizeName(c) == Renamed(title(replace(strip(c), "_", " ")))

normalize_cols(d) ==
  [d EXCEPT !.columns = [i \in DOMAIN d.columns |-> NormalizeName(d.columns[i])]]

----------------------------------------------------------------------------
\* Cells and frames.

Str(s) == <<"str", s>>
Num(n) == <<"num", n>>
NaN == <<"nan", 0>>
Ts(h) == <<"ts", h>>
NaT == <<"nat", 0>>

IsNum(v) == v[1] = "num"
IsTs(v) == v[1] = "ts"

\* A raw row is a JSON object: the sequence of its <<key, value>> pairs.
Keys(row) == {row[i][1] : i \in DOMAIN row}

\* dict lookup; NaN for a key the row does not have (pd.DataFrame fills it in)
Lookup(row, key) ==
  IF \E i \in DOMAIN row : row[i][1] = key
  THEN row[CHOOSE i \in DOMAIN row : row[i][1] = key][2]
  ELSE NaN

\* s followed by the elements of t that are not in it yet
RECURSIVE AppendNew(_, _)
AppendNew(s, t) ==
  IF t = <<>> THEN s
  ELSE AppendNew(IF \E i \in DOMAIN s : s[i] = Head(t) THEN s ELSE Append(s, Head(t)), Tail(t))

\* The columns of pd.DataFrame(rows): the keys in the order of their first appearance.
RECURSIVE FrameColumns(_)
FrameColumns(rows) ==
  IF rows = <<>> THEN <<>>
  ELSE AppendNew(FrameColumns(SubSeq(rows, 1, Len(rows) - 1)),
                 [i \in DOMAIN rows[Len(rows)] |-> rows[Len(rows)][i][1]])

\* The frame of `rows` with the columns `cols`, NaN where a row lacks the key.
FrameOf(rows, cols) ==
  [columns |-> cols,
   rows |-> [r \in DOMAIN rows |-> [c \in DOMAIN cols |-> Lookup(rows[r], cols[c])]]]

\* pd.DataFrame(all_rows)
DataFrame(rows) == FrameOf(rows, FrameColumns(rows))

NoFrame == [columns |-> <<>>, rows |-> <<>>]

\* name in df.columns
HasColumn(d, name) == \E c \in DOMAIN d.columns : d.columns[c] = name

ColumnIndex(d, name) == CHOOSE c \in DOMAIN d.columns : d.columns[c] = name

\* the cell of `row` (a row of d) in column `name`
Cell(d, row, name) == row[ColumnIndex(d, name)]

\* df[name] = values (one value per row): the column is replaced, or appended when new
SetColumn(d, name, values) ==
  IF HasColumn(d, name)
  THEN [d EXCEPT !.rows = [r \in DOMAIN d.rows |->
                             [d.rows[r] EXCEPT ![ColumnIndex(d, name)] = values[r]]]]
  ELSE [columns |-> Append(d.columns, name),
        rows |-> [r \in DOMAIN d.rows |-> Append(d.rows[r], values[r])]]

\* the rows of `rows` whose place in the boolean `mask` holds TRUE, in order
RECURSIVE MaskedRows(_, _)
MaskedRows(rows, mask) ==
  IF rows = <<>> THEN <<>>
  ELSE IF Head(mask) THEN <<Head(rows)>> \o MaskedRows(Tail(rows), Tail(mask))
  ELSE MaskedRows(Tail(rows), Tail(mask))

\* df[mask]
FilterRows(d, mask) == [d EXCEPT !.rows = MaskedRows(d.rows, mask)]

----------------------------------------------------------------------------
\* Values.

\* The floats the modelled JSON strings parse to, in halves of a unit
\* ("2.5" is 5 halves); a string that is not here is not numeric.
NumberOf == [s \in {"0", "1", "2.5", "3", "5", "6"} |->
               CASE s = "0" -> 0 [] s = "1" -> 2 [] s = "2.5" -> 5
                 [] s = "3" -> 6 [] s = "5" -> 10 [] s = "6" -> 12]

\* The wall-clock times the modelled timestamp strings denote, in hours since
\* 2022-12-01T00:00; a string that is not here is not a timestamp.
HoursOf == [s \in {"2022-12-15T00:00:00.000", "2023-01-01T00:00:00.000",
                   "2023-01-01T08:00:00.000", "2023-01-20T00:00:00.000",
                   "2023-02-10T00:00:00.000"} |->
              CASE s = "2022-12-15T00:00:00.000" -> 14 * 24
                [] s = "2023-01-01T00:00:00.000" -> 31 * 24
                [] s = "2023-01-01T08:00:00.000" -> 31 * 24 + 8
                [] s = "2023-01-20T00:00:00.000" -> (31 + 19) * 24
                [] s = "2023-02-10T00:00:00.000" -> (31 + 31 + 9) * 24]

\* America/Los_Angeles is UTC-8 throughout the modelled months (December to February).
PacificOffset == -8

\* SINCE: 2023-01-01T00:00 Pacific, as an instant.
SINCE == 752

\* pd.to_numeric(x, errors="coerce")
to_numeric(v) ==
  IF IsNum(v) THEN v
  ELSE IF v[1] = "str" /\ v[2] \in DOMAIN NumberOf THEN Num(NumberOf[v[2]])
  ELSE NaN

\* pd.to_datetime(x, errors="coerce", utc=True): a timestamp without a zone is
\* read as UTC. tz_convert keeps the instant.
to_datetime(v) ==
  IF IsTs(v) THEN v
  ELSE IF v[1] = "str" /\ v[2] \in DOMAIN HoursOf THEN Ts(HoursOf[v[2]])
  ELSE NaT

\* Series.fillna(0)
fillna0(v) == IF IsNum(v) THEN v[2] ELSE 0

\* Series.astype(str)
astype_str(v) == IF v[1] = "str" THEN v[2] ELSE "nan"

\* int(x): truncation towards zero, of a float held in halves
int(x) == IF x >= 0 THEN x \div 2 ELSE -((-x) \div 2)

\* The first hour (Pacific wall clock) of the calendar month of instant h:
\* .dt.to_period("M").dt.to_timestamp()
MonthStarts == <<0, 31 * 24, (31 + 31) * 24>>

to_period_M(h) ==
  LET local == h + PacificOffset
  IN MonthStarts[CHOOSE i \in DOMAIN MonthStarts :
                   /\ MonthStarts[i] <= local
                   /\ \A j \in DOMAIN MonthStarts : MonthStarts[j] <= local => j <= i]

\* .dt.strftime("%Y-%m")
strftime(m) == CASE m = 0 -> "2022-12" [] m = 31 * 24 -> "2023-01" [] OTHER -> "2023-02"

----------------------------------------------------------------------------
\* coerce_dates

IsDateColumn(c) == Contains(lower(c), <<"d","a","t","e">>)

coerce_dates(d) ==
  [d EXCEPT !.rows = [r \in DOMAIN d.rows |->
     [c \in DOMAIN d.columns |->
        IF IsDateColumn(d.columns[c]) THEN to_datetime(d.rows[r][c]) ELSE d.rows[r][c]]]]

----------------------------------------------------------------------------
\* compute_new_units

\* df[name] raises KeyError for a column the frame does not have.
ComputeRaises(d) ==
  \E c \in {proposed_units, existing_units, block, lot} : ~HasColumn(d, c)

\* proposed_units.fillna(0) - existing_units.fillna(0), of a row whose unit
\* columns are numeric already
UnitDelta(p, e) == fillna0(p) - fillna0(e)

\* block.astype(str) + "/" + lot.astype(str), held as the three parts
Apn(b, l) == <<"str", <<astype_str(b), "/", astype_str(l)>>>>

\* df["proposed_units"] = pd.to_numeric(df["proposed_units"], errors="coerce")
NumericColumn(d, name) ==
  SetColumn(d, name, [r \in DOMAIN d.rows |-> to_numeric(Cell(d, d.rows[r], name))])

\* df["new_units"] = ...
WithNewUnits(d) ==
  SetColumn(d, new_units,
            [r \in DOMAIN d.rows |->
               Num(UnitDelta(Cell(d, d.rows[r], proposed_units), Cell(d, d.rows[r], existing_units)))])

\* df["apn"] = ...
WithApn(d) ==
  SetColumn(d, apn, [r \in DOMAIN d.rows |-> Apn(Cell(d, d.rows[r], block), Cell(d, d.rows[r], lot))])

compute_new_units(d) ==
  WithApn(WithNewUnits(NumericColumn(NumericColumn(d, proposed_units), existing_units)))

----------------------------------------------------------------------------
\* main, step 2: the client-side filter

CompletedAnyTime(v) == IsTs(v)

\* df["completed_date"].notna() & (df["completed_date"] >= SINCE)
CompletedSince(v) == IsTs(v) /\ v[2] >= SINCE

\* df_recent["new_units"] > 0
PositiveUnits(v) == IsNum(v) /\ v[2] > 0

FilterRaises(d) == ~HasColumn(d, completed_date)

\* df[(df["completed_date"].notna()) & (df["completed_date"] >= SINCE)]
RecentRows(d) ==
  FilterRows(d, [r \in DOMAIN d.rows |-> CompletedSince(Cell(d, d.rows[r], completed_date))])

\* df[df["new_units"] > 0]
PositiveRows(d) ==
  FilterRows(d, [r \in DOMAIN d.rows |-> PositiveUnits(Cell(d, d.rows[r], new_units))])

filter_recent(d) == PositiveRows(RecentRows(d))

----------------------------------------------------------------------------
\* dedupe_reasonably

\* The modelled strings in Python's string order.
StringOrder == <<"100", "200", "201", "455", "nan">>

\* The position of string s in the order, 0 when it is not there.
IndexIn(order, s) ==
  IF \E i \in DOMAIN order : order[i] = s THEN CHOOSE i \in DOMAIN order : order[i] = s ELSE 0

Sign(a, b) == IF a < b THEN -1 ELSE IF a > b THEN 1 ELSE 0

StringCompare(s, t) == Sign(IndexIn(StringOrder, s), IndexIn(StringOrder, t))

\* sort_values puts NaN and NaT last in every key (na_position="last"),
\* whatever the key's direction: -1 when x sorts before y, 1 when after, 0 when tied.

\* key "apn", ascending
ApnOrder(x, y) ==
  IF StringCompare(x[2][1], y[2][1]) # 0 THEN StringCompare(x[2][1], y[2][1])
  ELSE StringCompare(x[2][3], y[2][3])

\* key "street_number", ascending
StreetOrder(x, y) ==
  IF x[1] # "str" /\ y[1] # "str" THEN 0
  ELSE IF x[1] # "str" THEN 1
  ELSE IF y[1] # "str" THEN -1
  ELSE StringCompare(x[2], y[2])

UnitsOrderAscending(x, y) ==
  IF ~IsNum(x) /\ ~IsNum(y) THEN 0
  ELSE IF ~IsNum(x) THEN 1
  ELSE IF ~IsNum(y) THEN -1
  ELSE Sign(x[2], y[2])

\* key "sort_key", descending
UnitsOrder(x, y) ==
  IF ~IsNum(x) /\ ~IsNum(y) THEN 0
  ELSE IF ~IsNum(x) THEN 1
  ELSE IF ~IsNum(y) THEN -1
  ELSE Sign(y[2], x[2])

DateOrderIgnored(x, y) == 0

\* key "completed_date", descending
DateOrder(x, y) ==
  IF ~IsTs(x) /\ ~IsTs(y) THEN 0
  ELSE IF ~IsTs(x) THEN 1
  ELSE IF ~IsTs(y) THEN -1
  ELSE Sign(y[2], x[2])

\* Row a sorts strictly before row b under
\* sort_values(["apn","street_number","sort_key","completed_date"], ascending=[True, True, False, False]).
SortsBefore(d, a, b) ==
  LET k1 == ApnOrder(Cell(d, a, apn), Cell(d, b, apn))
      k2 == StreetOrder(Cell(d, a, street_number), Cell(d, b, street_number))
      k3 == UnitsOrder(Cell(d, a, sort_key), Cell(d, b, sort_key))
      k4 == DateOrder(Cell(d, a, completed_date), Cell(d, b, completed_date))
  IN IF k1 # 0 THEN k1 < 0
     ELSE IF k2 # 0 THEN k2 < 0
     ELSE IF k3 # 0 THEN k3 < 0
     ELSE k4 < 0

\* `row` put into the sorted `rows` behind every row it does not sort strictly before
RECURSIVE InsertRow(_, _, _)
InsertRow(d, rows, row) ==
  IF rows = <<>> THEN <<row>>
  ELSE IF SortsBefore(d, row, Head(rows)) THEN <<row>> \o rows
  ELSE <<Head(rows)>> \o InsertRow(d, Tail(rows), row)

\* The stable sort of sort_values: rows that tie on every key keep their order.
RECURSIVE SortRows(_, _)
SortRows(d, rows) ==
  IF rows = <<>> THEN <<>>
  ELSE InsertRow(d, SortRows(d, SubSeq(rows, 1, Len(rows) - 1)), rows[Len(rows)])

SameSite(d, a, b) ==
  /\ Cell(d, a, apn) = Cell(d, b, apn)
  /\ Cell(d, a, street_number) = Cell(d, b, street_number)

\* drop_duplicates(subset=["apn","street_number"], keep="first")
RECURSIVE DropDuplicates(_, _)
DropDuplicates(d, rows) ==
  IF rows = <<>> THEN <<>>
  ELSE LET front == SubSeq(rows, 1, Len(rows) - 1)
           last == rows[Len(rows)]
       IN IF \E i \in DOMAIN front : SameSite(d, front[i], last)
          THEN DropDuplicates(d, front)
          ELSE Append(DropDuplicates(d, front), last)

DedupeRaises(d) ==
  \E c \in {new_units, apn, street_number, completed_date} : ~HasColumn(d, c)

\* eligible["sort_key"] = eligible["new_units"].fillna(0)
WithSortKey(d) ==
  SetColumn(d, sort_key, [r \in DOMAIN d.rows |-> Num(fillna0(Cell(d, d.rows[r], new_units)))])

\* eligible.sort_values(...)
sort_values(d) == [d EXCEPT !.rows = SortRows(d, d.rows)]

\* eligible.drop_duplicates(...)
drop_duplicates(d) == [d EXCEPT !.rows = DropDuplicates(d, d.rows)]

dedupe_reasonably(d) == drop_duplicates(sort_values(WithSortKey(PositiveRows(d))))

----------------------------------------------------------------------------
\* main, steps 4 and 5: the aggregation

RECURSIVE SumUnits(_, _)
SumUnits(d, rows) ==
  IF rows = <<>> THEN 0
  ELSE fillna0(Cell(d, Head(rows), new_units)) + SumUnits(d, Tail(rows))

\* int(deduped["new_units"].sum())
TotalUnits(d) == int(SumUnits(d, d.rows))

\* The month of a row; groupby drops the rows that have none.
MonthsOf(d) ==
  {to_period_M(Cell(d, d.rows[r], completed_date)[2]) :
     r \in {r \in DOMAIN d.rows : IsTs(Cell(d, d.rows[r], completed_date))}}

RECURSIVE Ascending(_)
Ascending(S) ==
  IF S = {} THEN <<>>
  ELSE LET least == CHOOSE x \in S : \A y \in S : x <= y
       IN <<least>> \o Ascending(S \ {least})

\* groupby("month")["new_units"].sum() for the months `months`, the month
\* formatted %Y-%m; the sums stay floats (halves of a unit)
SeriesFor(d, months) ==
  [i \in DOMAIN months |->
     [month |-> strftime(months[i]),
      new_units |-> SumUnits(d, MaskedRows(d.rows, [r \in DOMAIN d.rows |->
                      /\ IsTs(Cell(d, d.rows[r], completed_date))
                      /\ to_period_M(Cell(d, d.rows[r], completed_date)[2]) = months[i]]))]]

\* the monthly series, sorted by month
MonthlySeries(d) == SeriesFor(d, Ascending(MonthsOf(d)))

----------------------------------------------------------------------------
\* The source: the data set behind the API and the server's answer to fetch_page.

\* Rows per page (the program's 50000, scaled to the modelled data sets).
PAGE_SIZE == 2

\* stop_after_attempt(4)
MaxAttempts == 4

\* The largest modelled data set.
MaxRows == 3

\* A row as the API returns it: the selected fields in $select order, every
\* value a JSON string, a null field left out. "" stands for null.
Permit(rid, issued, completed, lotv, proposed, existing) ==
  LET fields == << <<issued_date, Str(issued)>>, <<completed_date, Str(completed)>>,
                    <<block, Str("100")>>, <<lot, Str(lotv)>>, <<street_number, Str("455")>>,
                    <<proposed_units, Str(proposed)>>, <<existing_units, Str(existing)>>,
                    <<record_id, Str(rid)>> >>
  IN MaskedRows(fields, [i \in DOMAIN fields |-> fields[i][2][2] # ""])

\* The modelled population of permits. A and B are two filings of one project
\* that tie on units and completion; D has a fractional unit count and no
\* existing_units; E is not completed; F was issued before 2023 and completed
\* after; G was completed at 2023-01-01T00:00 read as UTC, which is
\* 2022-12-31 16:00 Pacific; H was completed at the cutoff itself; I has a
\* non-numeric existing_units and is a later filing of H's site with H's units.
Permits ==
  { Permit("A", "2023-01-20T00:00:00.000", "2023-01-20T00:00:00.000", "200", "5", "0"),
    Permit("B", "2023-01-01T00:00:00.000", "2023-01-20T00:00:00.000", "200", "6", "1"),
    Permit("D", "2023-01-20T00:00:00.000", "2023-02-10T00:00:00.000", "201", "2.5", ""),
    Permit("E", "2023-01-20T00:00:00.000", "", "201", "5", ""),
    Permit("F", "2022-12-15T00:00:00.000", "2023-01-20T00:00:00.000", "201", "3", "1"),
    Permit("G", "2023-01-20T00:00:00.000", "2023-01-01T00:00:00.000", "201", "5", "0"),
    Permit("H", "2023-01-20T00:00:00.000", "2023-01-01T08:00:00.000", "201", "5", "0"),
    Permit("I", "2023-01-20T00:00:00.000", "2023-02-10T00:00:00.000", "201", "5", "n/a") }

\* What the data source can hold: up to MaxRows permits in any order, each
\* record once (record_id identifies the permit).
Datasets ==
  {ds \in UNION {[1..n -> Permits] : n \in 0..MaxRows} :
     \A i, j \in DOMAIN ds : ds[i] = ds[j] => i = j}

\* coalesce(x::number, 0)
ServerNumber(v) == IF v[1] = "str" /\ v[2] \in DOMAIN NumberOf THEN NumberOf[v[2]] ELSE 0

\* since_str, as the server reads it: a wall-clock time without a zone
since_str == HoursOf["2023-01-01T00:00:00.000"]

\* The $where clause of fetch_page.
ServerWhere(row) ==
  LET issued == Lookup(row, issued_date)
  IN /\ issued[1] = "str" /\ issued[2] \in DOMAIN HoursOf
     /\ HoursOf[issued[2]] >= since_str
     /\ ServerNumber(Lookup(row, proposed_units)) - ServerNumber(Lookup(row, existing_units)) > 0

\* The rows the query selects, in the server's order.
Served(ds) == SelectSeq(ds, ServerWhere)

\* The body of a good response: $limit rows from $offset on.
Page(ds, off) ==
  LET rows == Served(ds)
      last == IF off + PAGE_SIZE < Len(rows) THEN off + PAGE_SIZE ELSE Len(rows)
  IN SubSeq(rows, off + 1, last)

----------------------------------------------------------------------------
\* public_data/: each file is <<"none", ..>> (not there), <<"old", ..>> (an
\* earlier run's) or <<"new", content>> (this run's). Before the run the totals
\* and the monthly series of an earlier run are there, today's snapshot is not.

Published ==
  [totals |-> <<"old", 0>>, monthly |-> <<"old", <<>>>>, raw |-> <<"none", <<>>>>]

----------------------------------------------------------------------------
\* main

Errors == {"http_error", "non_json", "api_error"}

Failed == {"retry_error", "no_data", "key_error_compute", "key_error_filter", "key_error_dedupe"}

Init ==
  /\ dataset \in Datasets
  /\ previous = Published
  /\ pc = "request"
  /\ offset = 0
  /\ attempt = 0
  /\ lastOutcome = "none"
  /\ requested = <<>>
  /\ pages = <<>>
  /\ all_rows = <<>>
  /\ df = NoFrame
  /\ deduped = NoFrame
  /\ total_units = 0
  /\ monthly = <<>>
  /\ artifacts = previous

\* len(page) < PAGE_SIZE
ShortPageOrFull(page) == Len(page) <= PAGE_SIZE

ShortPage(page) == Len(page) < PAGE_SIZE

\* offset += PAGE_SIZE
NextOffset(off) == off + PAGE_SIZE

\* main calls fetch_page(offset): the first attempt is about to be made.
RequestPage ==
  /\ pc = "request"
  /\ requested' = Append(requested, offset)
  /\ attempt' = 1
  /\ pc' = "fetch"
  /\ UNCHANGED <<dataset, previous, offset, lastOutcome, pages, all_rows, df, deduped,
                 total_units, monthly, artifacts>>

FetchRaisesSwallowed(kind) ==
  /\ pc = "fetch"
  /\ lastOutcome' = kind
  /\ IF attempt < MaxAttempts
     THEN attempt' = attempt + 1 /\ pc' = "fetch"
     ELSE pc' = "collected" /\ UNCHANGED attempt
  /\ UNCHANGED <<dataset, previous, offset, requested, pages, all_rows, df, deduped,
                 total_units, monthly, artifacts>>

\* An attempt of fetch_page raises: raise_for_status or a network error
\* ("http_error"), r.json() ("non_json"), the RuntimeError for an error body
\* ("api_error"). @retry names no exception class, so tenacity retries whatever
\* was raised until the fourth attempt, and then raises RetryError out of main.
FetchRaises(kind) ==
  /\ pc = "fetch"
  /\ lastOutcome' = kind
  /\ IF attempt < MaxAttempts
     THEN attempt' = attempt + 1 /\ pc' = "fetch"
     ELSE pc' = "retry_error" /\ UNCHANGED attempt
  /\ UNCHANGED <<dataset, previous, offset, requested, pages, all_rows, df, deduped,
                 total_units, monthly, artifacts>>

\* An attempt of fetch_page returns the page, and main runs the rest of the loop body.
FetchReturns ==
  /\ pc = "fetch"
  /\ LET page == Page(dataset, offset)
     IN /\ lastOutcome' = "ok"
        /\ attempt' = 0
        /\ pages' = Append(pages, page)
        /\ IF page = <<>>
           THEN pc' = "collected" /\ UNCHANGED <<all_rows, offset>>
           ELSE /\ all_rows' = all_rows \o page
                /\ IF ShortPage(page)
                   THEN pc' = "collected" /\ UNCHANGED offset
                   ELSE offset' = NextOffset(offset) /\ pc' = "request"
  /\ UNCHANGED <<dataset, previous, requested, df, deduped, total_units, monthly, artifacts>>

\* if not all_rows: raise SystemExit; df = pd.DataFrame(all_rows)
BuildFrame ==
  /\ pc = "collected"
  /\ IF all_rows = <<>>
     THEN pc' = "no_data" /\ UNCHANGED df
     ELSE df' = DataFrame(all_rows) /\ pc' = "normalize"
  /\ UNCHANGED <<dataset, previous, offset, attempt, lastOutcome, requested, pages, all_rows,
                 deduped, total_units, monthly, artifacts>>

Normalize ==
  /\ pc = "normalize"
  /\ df' = normalize_cols(df)
  /\ pc' = "coerce"
  /\ UNCHANGED <<dataset, previous, offset, attempt, lastOutcome, requested, pages, all_rows,
                 deduped, total_units, monthly, artifacts>>

CoerceDates ==
  /\ pc = "coerce"
  /\ df' = coerce_dates(df)
  /\ pc' = "compute"
  /\ UNCHANGED <<dataset, previous, offset, attempt, lastOutcome, requested, pages, all_rows,
                 deduped, total_units, monthly, artifacts>>

ComputeNewUnits ==
  /\ pc = "compute"
  /\ IF ComputeRaises(df)
     THEN pc' = "key_error_compute" /\ UNCHANGED df
     ELSE df' = compute_new_units(df) /\ pc' = "filter"
  /\ UNCHANGED <<dataset, previous, offset, attempt, lastOutcome, requested, pages, all_rows,
                 deduped, total_units, monthly, artifacts>>

\* df_recent
FilterRecent ==
  /\ pc = "filter"
  /\ IF FilterRaises(df)
     THEN pc' = "key_error_filter" /\ UNCHANGED df
     ELSE df' = filter_recent(df) /\ pc' = "dedupe"
  /\ UNCHANGED <<dataset, previous, offset, attempt, lastOutcome, requested, pages, all_rows,
                 deduped, total_units, monthly, artifacts>>

Dedupe ==
  /\ pc = "dedupe"
  /\ IF DedupeRaises(df)
     THEN pc' = "key_error_dedupe" /\ UNCHANGED deduped
     ELSE deduped' = dedupe_reasonably(df) /\ pc' = "aggregate"
  /\ UNCHANGED <<dataset, previous, offset, attempt, lastOutcome, requested, pages, all_rows,
                 df, total_units, monthly, artifacts>>

Aggregate ==
  /\ pc = "aggregate"
  /\ total_units' = TotalUnits(deduped)
  /\ monthly' = MonthlySeries(deduped)
  /\ pc' = "write_totals"
  /\ UNCHANGED <<dataset, previous, offset, attempt, lastOutcome, requested, pages, all_rows,
                 df, deduped, artifacts>>

WriteTotals ==
  /\ pc = "write_totals"
  /\ artifacts' = [artifacts EXCEPT !.totals = <<"new", total_units>>]
  /\ pc' = "write_monthly"
  /\ UNCHANGED <<dataset, previous, offset, attempt, lastOutcome, requested, pages, all_rows,
                 df, deduped, total_units, monthly>>

WriteMonthly ==
  /\ pc = "write_monthly"
  /\ artifacts' = [artifacts EXCEPT !.monthly = <<"new", monthly>>]
  /\ pc' = "write_raw"
  /\ UNCHANGED <<dataset, previous, offset, attempt, lastOutcome, requested, pages, all_rows,
                 df, deduped, total_units, monthly>>

WriteRaw ==
  /\ pc = "write_raw"
  /\ artifacts' = [artifacts EXCEPT !.raw = <<"new", all_rows>>]
  /\ pc' = "done"
  /\ UNCHANGED <<dataset, previous, offset, attempt, lastOutcome, requested, pages, all_rows,
                 df, deduped, total_units, monthly>>

Next ==
  \/ RequestPage
  \/ \E kind \in Errors : FetchRaises(kind)
  \/ FetchReturns
  \/ BuildFrame
  \/ Normalize
  \/ CoerceDates
  \/ ComputeNewUnits
  \/ FilterRecent
  \/ Dedupe
  \/ Aggregate
  \/ WriteTotals
  \/ WriteMonthly
  \/ WriteRaw

Spec == Init /\ [][Next]_vars

----------------------------------------------------------------------------
\* normalize_cols on its own: a one-row frame whose keys are drawn from NormKeys.

\* The most keys of a modelled frame.
MaxCols == 2

\* Keys as a caller may spell them: canonical names, the notebook's titled
\* names, other casings and paddings, and names of no known field.
NormKeys ==
  { <<"p","e","r","m","i","t","_","n","u","m","b","e","r">>,
    <<"P","e","r","m","i","t"," ","N","u","m","b","e","r">>,
    <<" ","L","o","t"," ">>,
    <<"B","L","O","C","K">>,
    <<"z","i","p","c","o","d","e">>,
    <<"r","e","c","o","r","d","_","i","d">>,
    <<"R","e","c","o","r","d"," ","I","D">>,
    <<"a","d","u">>,
    <<"A","D","U">>,
    <<"f","o","o","_","b","a","r">> }

\* The key lists of a JSON object: no key twice.
KeyLists ==
  UNION {{ks \in [1..n -> NormKeys] : \A i, j \in 1..n : i # j => ks[i] # ks[j]} :
           n \in 1..MaxCols}

InitNorm ==
  /\ dataset = <<>>
  /\ previous = Published
  /\ pc = "normalize"
  /\ offset = 0
  /\ attempt = 0
  /\ lastOutcome = "ok"
  /\ requested = <<0>>
  /\ \E ks \in KeyLists : all_rows = << [i \in DOMAIN ks |-> <<ks[i], Str("x")>>] >>
  /\ pages = <<all_rows>>
  /\ df = DataFrame(all_rows)
  /\ deduped = NoFrame
  /\ total_units = 0
  /\ monthly = <<>>
  /\ artifacts = previous

SpecNorm == InitNorm /\ [][Normalize]_vars

----------------------------------------------------------------------------
\* dedupe_reasonably on its own: frames of computed rows drawn from DedupeRows.

\* The most rows of a modelled frame.
MaxDf == 3

DedupeColumns == <<apn, street_number, new_units, completed_date>>

\* Two sites; no, three or five net new units; no completion date or one of two.
DedupeRows ==
  { <<Apn(Str("100"), Str(l)), Str("455"), Num(u), c>> :
      l \in {"200", "201"}, u \in {0, 6, 10},
      c \in {NaT, Ts(HoursOf["2023-01-20T00:00:00.000"]), Ts(HoursOf["2023-02-10T00:00:00.000"])} }

InitDedupe ==
  /\ dataset = <<>>
  /\ previous = Published
  /\ pc = "dedupe"
  /\ offset = 0
  /\ attempt = 0
  /\ lastOutcome = "ok"
  /\ requested = <<0>>
  /\ pages = <<>>
  /\ all_rows = <<>>
  /\ \E rows \in UNION {[1..n -> DedupeRows] : n \in 0..MaxDf} :
       df = [columns |-> DedupeColumns, rows |-> rows]
  /\ deduped = NoFrame
  /\ total_units = 0
  /\ monthly = <<>>
  /\ artifacts = previous

SpecDedupe == InitDedupe /\ [][Dedupe]_vars

----------------------------------------------------------------------------
\* The pipeline of main from all_rows to the emitted numbers, as one function
\* (lines 147-183): used to state what a run over other rows would emit.

Coerced(rows) == coerce_dates(normalize_cols(DataFrame(rows)))

FrameRaises(d) ==
  \/ ComputeRaises(d)
  \/ FilterRaises(compute_new_units(d))
  \/ DedupeRaises(compute_new_units(d))

ClientRaises(rows) == rows = <<>> \/ FrameRaises(Coerced(rows))

Emitted(kept) == [total |-> TotalUnits(kept), monthly |-> MonthlySeries(kept)]

ClientResult(rows) == Emitted(dedupe_reasonably(filter_recent(compute_new_units(Coerced(rows)))))

----------------------------------------------------------------------------
\* Vocabulary of the properties.

Final == Failed \cup {"done"}

Fetching == {"request", "fetch", "retry_error"}

Aggregated == {"aggregate", "write_totals", "write_monthly", "write_raw", "done"}

Malformed == {"non_json", "api_error"}

\* The site_key of a row of frame d.
SiteKey(d, row) == <<Cell(d, row, apn), Cell(d, row, street_number)>>

Units(d, row) == Cell(d, row, new_units)[2]

\* A completion date as a number, no date being earlier than every date.
DateRank(v) == IF IsTs(v) THEN v[2] ELSE -1

\* A row of dedupe_reasonably's output without the sort_key column it adds.
Original(d, row) == SubSeq(row, 1, Len(d.columns))

EligibleRows(d) == {d.rows[r] : r \in {r \in DOMAIN d.rows : PositiveUnits(Cell(d, d.rows[r], new_units))}}

RECURSIVE Concat(_)
Concat(ps) == IF ps = <<>> THEN <<>> ELSE Head(ps) \o Concat(Tail(ps))

RECURSIVE SeriesSum(_)
SeriesSum(series) ==
  IF series = <<>> THEN 0 ELSE Head(series).new_units + SeriesSum(Tail(series))

\* The row orders of a data set.
Reorderings(ds) == {[i \in DOMAIN ds |-> ds[p[i]]] : p \in Permutations(DOMAIN ds)}

----------------------------------------------------------------------------
\* C1: dedupe_reasonably returns exactly one row for each site_key that occurs
\* among the rows with new_units > 0 and no other row; that row is a row of its
\* group (so a group of one passes through unchanged), no row of the group has
\* more new_units, and no row of the group with as many new_units has a later
\* completed_date.
C1_OneRepresentativePerSite ==
  pc = "aggregate" =>
    LET sites == {SiteKey(df, row) : row \in EligibleRows(df)}
    IN /\ Len(deduped.rows) = Cardinality(sites)
       /\ \A s \in sites :
            LET group == {row \in EligibleRows(df) : SiteKey(df, row) = s}
                out == {i \in DOMAIN deduped.rows : SiteKey(deduped, deduped.rows[i]) = s}
            IN /\ Cardinality(out) = 1
               /\ \A i \in out :
                    LET rep == Original(df, deduped.rows[i])
                    IN /\ rep \in group
                       /\ \A m \in group :
                            /\ Units(df, m) <= Units(df, rep)
                            /\ Units(df, m) = Units(df, rep) =>
                                 DateRank(Cell(df, m, completed_date))
                                   <= DateRank(Cell(df, rep, completed_date))

\* C1's case: a site with a 3-unit row completed later and a 5-unit row
\* completed earlier, and the 5-unit row is the one returned.
C1_HigherUnitsBeatLaterDate ==
  /\ pc = "aggregate"
  /\ \E a, b \in EligibleRows(df) :
       /\ SiteKey(df, a) = SiteKey(df, b)
       /\ Units(df, a) = 6 /\ Units(df, b) = 10
       /\ DateRank(Cell(df, a, completed_date)) > DateRank(Cell(df, b, completed_date))
       /\ DateRank(Cell(df, b, completed_date)) >= 0
       /\ \E i \in DOMAIN deduped.rows : Original(df, deduped.rows[i]) = b
       /\ SumUnits(deduped, deduped.rows) = 10

----------------------------------------------------------------------------
\* C2: every row of the deduplicated set (the rows that total_units and the
\* monthly series are summed from) has a completed_date, on or after SINCE,
\* and new_units > 0, and it comes from a raw row that carries that
\* completed_date; a raw row without completed_date has no row there.
C2_OnlyCompletedSinceCutoffCount ==
  pc \in Aggregated =>
    \A i \in DOMAIN deduped.rows :
      LET row == deduped.rows[i]
          completed == Cell(deduped, row, completed_date)
      IN /\ IsTs(completed)
         /\ completed[2] >= SINCE
         /\ PositiveUnits(Cell(deduped, row, new_units))
         /\ \E k \in DOMAIN all_rows :
              /\ Lookup(all_rows[k], record_id) = Cell(deduped, row, NormalizeName(record_id))
              /\ completed_date \in Keys(all_rows[k])
              /\ to_datetime(Lookup(all_rows[k], completed_date)) = completed

\* C2's case: the run fetched a row without completed_date and a row completed
\* before the cutoff, both with new_units > 0, and a row completed at the cutoff
\* itself; only the last one counts.
C2_CutoffCasesReached ==
  /\ pc = "done"
  /\ \E k \in DOMAIN all_rows :
       /\ completed_date \notin Keys(all_rows[k])
       /\ ServerNumber(Lookup(all_rows[k], proposed_units)) > 0
  /\ \E k \in DOMAIN all_rows :
       /\ completed_date \in Keys(all_rows[k])
       /\ to_datetime(Lookup(all_rows[k], completed_date))[2] < SINCE
  /\ Len(deduped.rows) = 1
  /\ Cell(deduped, deduped.rows[1], completed_date) = Ts(SINCE)
  /\ total_units = 5

\* C3: when the artifacts are written, the new_units of the monthly series add
\* up to total_units (both in halves of a unit).
C3_MonthlySumsToTotal ==
  pc = "done" => SeriesSum(artifacts.monthly[2]) = 2 * artifacts.totals[2]

\* C4: a run that has failed has left every artifact as it was, and an artifact
\* differs from what was there before the run only once every page was fetched
\* (all_rows is everything the query selects, the last attempt succeeded) and
\* at least one raw row was collected.
C4_FailedRunWritesNothing ==
  /\ pc \in Failed => artifacts = previous
  /\ artifacts # previous =>
       /\ pc \in {"write_monthly", "write_raw", "done"}
       /\ lastOutcome = "ok"
       /\ all_rows # <<>>
       /\ all_rows = Served(dataset)

\* C4's case: the retry budget ran out on a later page, after rows were collected.
C4_FailedAfterRowsCollected ==
  /\ pc = "retry_error"
  /\ all_rows # <<>>
  /\ artifacts = Published

\* The pagination invariant of C5: the offsets requested are 0, PAGE_SIZE, 2*PAGE_SIZE, ... in that order,
\* one page at a time; every page that was followed by another request was
\* full, the loop is left only after a short (or empty) page, all_rows is the
\* pages fetched, in order, and the number of requests is bounded by the
\* number of rows the query selects.
C5_PaginationOrder ==
  /\ \A i \in DOMAIN requested : requested[i] = (i - 1) * PAGE_SIZE
  /\ Len(requested) = Len(pages) + (IF pc = "fetch" \/ pc = "retry_error" THEN 1 ELSE 0)
  /\ \A i \in DOMAIN pages : i < Len(requested) => Len(pages[i]) = PAGE_SIZE
  /\ pc = "request" /\ pages # <<>> => Len(pages[Len(pages)]) = PAGE_SIZE
  /\ pc \notin Fetching => pages # <<>> /\ Len(pages[Len(pages)]) < PAGE_SIZE
  /\ all_rows = Concat(pages)
  /\ pc \notin Fetching => all_rows = Served(dataset)
  /\ Len(requested) <= (Len(Served(dataset)) \div PAGE_SIZE) + 1
  /\ attempt <= MaxAttempts

\* The steps a run can still take, at most: the attempts left for this page and
\* the pages after it, then the straight line from the frame to the last write.
StepsLeft ==
  LET pagesLeft == (Len(Served(dataset)) \div PAGE_SIZE) + 1 - Len(pages)
      afterLoop == 13
  IN CASE pc = "request" -> afterLoop + pagesLeft * (MaxAttempts + 1)
       [] pc = "fetch" -> afterLoop + (pagesLeft - 1) * (MaxAttempts + 1) + (MaxAttempts - attempt) + 1
       [] pc = "collected" -> 12
       [] pc = "normalize" -> 11
       [] pc = "coerce" -> 10
       [] pc = "compute" -> 9
       [] pc = "filter" -> 8
       [] pc = "dedupe" -> 7
       [] pc = "aggregate" -> 6
       [] pc = "write_totals" -> 5
       [] pc = "write_monthly" -> 4
       [] pc = "write_raw" -> 3
       [] OTHER -> 0

\* C5: C5_PaginationOrder holds throughout, and every step of a run uses up one
\* of the boundedly many steps left, so the loop (and the run) terminates.
C5_PaginationTerminates ==
  /\ []C5_PaginationOrder
  /\ [][StepsLeft >= 0 /\ StepsLeft' >= 0 /\ StepsLeft' < StepsLeft]_vars

\* C5's case: a full page was followed by a second request, whose short page
\* ended the loop.
C5_FullPageThenShortPage ==
  /\ pc = "collected"
  /\ requested = <<0, PAGE_SIZE>>
  /\ Len(pages[1]) = PAGE_SIZE
  /\ Len(pages[2]) \in 1..(PAGE_SIZE - 1)

\* C6: compute_new_units does not raise, and after it every row has
\* new_units = p - e, p and e being the numeric values of proposed_units and
\* existing_units, 0 for an absent or non-numeric one.
C6_ComputeAlwaysSucceeds ==
  /\ pc # "key_error_compute"
  /\ pc = "filter" =>
       \A r \in DOMAIN df.rows :
         Cell(df, df.rows[r], new_units)
           = Num(ServerNumber(Lookup(all_rows[r], proposed_units))
                   - ServerNumber(Lookup(all_rows[r], existing_units)))

\* C7: what a run emits from the rows the server selected is what the
\* client-side pipeline makes of the whole data set (when it can process it).
C7_ServerFilterIsOptimization ==
  pc = "done" /\ ~ClientRaises(dataset) =>
    ClientResult(dataset) = [total |-> artifacts.totals[2], monthly |-> artifacts.monthly[2]]

\* C8: after a malformed response (a body that is not JSON, an API error body)
\* the run has failed, without another attempt of fetch_page having been set up.
C8_MalformedNotRetried ==
  lastOutcome \in Malformed => pc \in Failed /\ attempt = 1

\* One fixed order of the rows of ds, the same for every order ds comes in
\* (Reorderings(ds) is the same set for all of them).
CanonicalOrder(ds) == CHOOSE q \in Reorderings(ds) : TRUE

\* C9: what a run emits, and whether it emits anything, depends on the rows of
\* the source only, not on their order or paging: it is what the pipeline makes
\* of the rows in one fixed order, so any two orders of the same rows give the
\* same total_units and the same monthly series.
C9_OrderIndependent ==
  /\ pc = "done" =>
       /\ ~ClientRaises(Served(CanonicalOrder(dataset)))
       /\ ClientResult(Served(CanonicalOrder(dataset)))
            = [total |-> artifacts.totals[2], monthly |-> artifacts.monthly[2]]
  /\ pc \in Failed \ {"retry_error"} => ClientRaises(Served(CanonicalOrder(dataset)))

\* C9's case: two different rows of one site tie on new_units and on
\* completed_date, one of the two is the representative, and the run over the
\* rows in the fixed order has another representative.
C9_TiedRepresentative ==
  /\ pc = "done"
  /\ \E i, j \in DOMAIN df.rows :
       /\ df.rows[i] # df.rows[j]
       /\ SiteKey(df, df.rows[i]) = SiteKey(df, df.rows[j])
       /\ Cell(df, df.rows[i], new_units) = Cell(df, df.rows[j], new_units)
       /\ Cell(df, df.rows[i], completed_date) = Cell(df, df.rows[j], completed_date)
       /\ \E k \in DOMAIN deduped.rows : Original(df, deduped.rows[k]) = df.rows[i]
  /\ dedupe_reasonably(filter_recent(compute_new_units(
        Coerced(Served(CanonicalOrder(dataset)))))).rows # deduped.rows

\* The canonical names: the values of the rename dict.
KnownFields == {rename[k] : k \in DOMAIN rename}

\* The canonical spelling of a key: trimmed, lower case, "_" for " ".
Canonical(k) == replace(lower(strip(k)), " ", "_")

\* C10: after normalize_cols every column name is the canonical name of a known
\* field, the key of every known field's variant has become that field's
\* canonical name, and there are as many records as before.
C10_ColumnsCanonical ==
  pc = "coerce" =>
    /\ Len(df.rows) = Len(all_rows)
    /\ \A c \in DOMAIN df.columns : df.columns[c] \in KnownFields
    /\ \A k \in UNION {Keys(all_rows[r]) : r \in DOMAIN all_rows} :
         Canonical(k) \in KnownFields => HasColumn(df, Canonical(k))
====
